---- MODULE Spec2Model ----
(***************************************************************************)
(* Model of api/answer-question.ts: the Gemini model/version auto-pick     *)
(* (generateWithAutoPick), the retrying POST (postJsonWithRetry) and the   *)
(* helpers they use.                                                       *)
(*                                                                         *)
(* Strings are modelled as sequences of tokens, so that template strings   *)
(* are concatenations (\o) and String.prototype.includes is a search for   *)
(* a contiguous sub-sequence.                                              *)
(*                                                                         *)
(* The page (src/App.vue) is modelled on its own: the handlers of the      *)
(* search, of the selection of an article and of the question form, and    *)
(* the continuations of their fetches, which settle in any order.          *)
(***************************************************************************)
EXTENDS Integers, Sequences, FiniteSets, Bags, TLC

(* ---------- bounds of the model ---------- *)
\* longest catalog a list-models response carries
MaxCatalog == 2
\* largest `retries` argument postJsonWithRetry is run with on its own
MaxRetries == 3
\* invocations of the handler in one run
MaxCalls == 2
\* longest catalog of the runs that are followed to their end or through
\* several invocations
MaxLiveCatalog == 1
\* clock ticks a run of fetchWithTimeout is followed for
MaxPending == 2
MaxQuestions == 1
MaxTicks == 8

(* ---------- string helpers ---------- *)
\* String.prototype.includes on token sequences
Includes(s, t) ==
  \E k \in 0..(Len(s) - Len(t)) : SubSeq(s, k + 1, k + Len(t)) = t

\* Array.prototype.includes / Set.prototype.has on a sequence
InSeq(x, s) == \E k \in 1..Len(s) : s[k] = x

(* ---------- the remote service: statuses, bodies, catalogs ---------- *)
Statuses == {200, 204, 400, 401, 403, 404, 429, 500, 502, 503, 504}

\* Response.ok
respOk(status) == status >= 200 /\ status <= 299

\* bodies of error responses, as token sequences
BodyDenied      == <<"{", "PERMISSION_DENIED", "}">>
BodyNotFound    == <<"{", "\"code\"", ": ", "404", "NOT_FOUND", "}">>
BodyUnsupported == <<"{", "this is ", "not supported", "}">>
ErrBodies == {BodyDenied, BodyNotFound, BodyUnsupported}

\* bodies of 2xx generate-content responses
BodyAnswer    == <<"{", "\"text\"", ": ", " answer ", "}">>
BodyBlank     == <<"{", "\"text\"", ": ", "  ", "}">>
BodyNoText    == <<"{", "}">>
BodyHtml      == <<"<html>">>
BodyBlankUnsupported == <<"{", "\"text\"", ": ", "", "not supported", "}">>
OkBodies == {BodyAnswer, BodyBlank, BodyNoText, BodyHtml, BodyBlankUnsupported}

\* the outcome of one fetchWithTimeout + resp.text(): a response or a thrown
\* transport error (timeout abort, network failure)
Resp(status, raw) == [kind |-> "resp", status |-> status, raw |-> raw, msg |-> <<>>]
Thrown(msg)       == [kind |-> "throw", status |-> 0, raw |-> <<>>, msg |-> msg]
NoOutcome         == [kind |-> "none", status |-> 0, raw |-> <<>>, msg |-> <<>>]

TransportErrors == {Thrown(<<"fetch failed">>)}

GenOutcomes ==
  TransportErrors
  \cup {Resp(s, b) : s \in {s \in Statuses : respOk(s)}, b \in OkBodies}
  \cup {Resp(s, b) : s \in {s \in Statuses : ~respOk(s)}, b \in ErrBodies}

\* a model descriptor of a list-models response (GeminiModel); hasName is
\* `typeof m.name === 'string'`, hasMethods is `Array.isArray(methods)`
Descriptor(hasName, name, hasMethods, methods) ==
  [hasName |-> hasName, name |-> name, hasMethods |-> hasMethods, methods |-> methods]

DLite       == Descriptor(TRUE, <<"models/", "gemini-2.0-flash-lite">>, TRUE, <<"generateContent", "countTokens">>)
DFlash      == Descriptor(TRUE, <<"gemini-2.5-flash">>, TRUE, <<>>)
DPro        == Descriptor(TRUE, <<"models/", "gemini-pro">>, FALSE, <<>>)
DEmbed      == Descriptor(TRUE, <<"models/", "embedding-001">>, TRUE, <<"embedContent">>)
DAqa        == Descriptor(TRUE, <<"models/", "aqa">>, TRUE, <<"generateAnswer">>)
DNameless   == Descriptor(FALSE, <<>>, TRUE, <<"generateContent">>)
DPrefixOnly == Descriptor(TRUE, <<"models/">>, FALSE, <<>>)
Descriptors == {DLite, DFlash, DPro, DEmbed}

\* catalogs with a descriptor that has no usable name, and one in which
\* no descriptor advertises generateContent
EdgeCatalogs == {<<DNameless, DPro>>, <<DPrefixOnly, DEmbed>>, <<DEmbed, DAqa>>}

Catalogs == UNION {[1..n -> Descriptors] : n \in 0..MaxCatalog} \cup EdgeCatalogs

\* the outcome of the list-models request: a thrown transport error, or a
\* response whose body is unparsable ("bad"), JSON without a models array
\* ("nomodels") or JSON with a models array ("ok")
ListResp(status, parse, models) ==
  [kind |-> "resp", status |-> status, parse |-> parse, models |-> models]
ListThrown == [kind |-> "throw", status |-> 0, parse |-> "bad", models |-> <<>>]

ListOutcomes ==
  {ListThrown}
  \cup {ListResp(s, "bad", <<>>) : s \in Statuses}
  \cup {ListResp(200, "nomodels", <<>>)}
  \cup {ListResp(200, "ok", c) : c \in Catalogs}

\* the list-models outcomes of the runs that are followed to their end or
\* through several invocations
LiveListOutcomes ==
  {ListThrown}
  \cup {ListResp(s, "bad", <<>>) : s \in Statuses}
  \cup {ListResp(200, "nomodels", <<>>)}
  \cup {ListResp(200, "ok", c) :
          c \in UNION {[1..n -> Descriptors] : n \in 0..MaxLiveCatalog} \cup EdgeCatalogs}

(* ---------- pure helpers of answer-question.ts ---------- *)
\* isRetryableStatus with 502 left out of the list
isRetryableStatus_no502(status) ==
  status = 429 \/ status = 500 \/ status = 503 \/ status = 504

\* isRetryableStatus taking every 4xx/5xx status for retryable
isRetryableStatus_anyError(status) == status >= 400

isRetryableStatus(status) ==
  status = 429 \/ status = 500 \/ status = 502 \/ status = 503 \/ status = 504

\* fullName.replace(/^models\//, '')
\* shortModelName leaving the name as it is
shortModelName_keepPrefix(fullName) == fullName

shortModelName(fullName) ==
  IF Len(fullName) > 0 /\ fullName[1] = "models/" THEN Tail(fullName) ELSE fullName

\* modelSupportsGenerateContent taking a missing or empty list for "no"
modelSupportsGenerateContent_strict(m) ==
  m.hasMethods /\ InSeq("generateContent", m.methods)

modelSupportsGenerateContent(m) ==
  IF ~m.hasMethods \/ Len(m.methods) = 0 THEN TRUE
  ELSE InSeq("generateContent", m.methods)

\* isGeminiNotFoundOrUnsupported looking only at the body's markers, not
\* at the status in the message
isGeminiNotFoundOrUnsupported_noStatus(errMsg) ==
  \/ Includes(errMsg, <<"\"code\"", ": ", "404">>)
  \/ Includes(errMsg, <<"NOT_FOUND">>)
  \/ Includes(errMsg, <<"not supported">>)

\* isGeminiNotFoundOrUnsupported taking every non-2xx response for a mismatch
isGeminiNotFoundOrUnsupported_anyFailure(errMsg) ==
  \/ Includes(errMsg, <<"Gemini generateContent failed (">>)
  \/ Includes(errMsg, <<"NOT_FOUND">>)
  \/ Includes(errMsg, <<"not supported">>)

isGeminiNotFoundOrUnsupported(errMsg) ==
  \/ Includes(errMsg, <<": ", "404">>)
  \/ Includes(errMsg, <<"\"code\"", ": ", "404">>)
  \/ Includes(errMsg, <<"NOT_FOUND">>)
  \/ Includes(errMsg, <<"not supported">>)

\* backoffWait growing linearly instead of doubling
backoffWait_linear(i) == 800 * (i + 1)

\* the backoff of attempt i: 800 * Math.pow(2, i)
backoffWait(i) == 800 * (2 ^ i)

\* String.prototype.trim on the texts the service returns
trim(text) ==
  CASE text = " answer " -> "answer"
    [] text = "  " -> ""
    [] OTHER -> text

\* JSON.parse(raw) succeeds
jsonParses(raw) == Len(raw) >= 2 /\ raw[1] = "{" /\ raw[Len(raw)] = "}"

\* data?.candidates?.[0]?.content?.parts?.[0]?.text is a string
hasText(raw) == Len(raw) >= 5 /\ raw[2] = "\"text\"" /\ raw[3] = ": "
textOf(raw) == raw[4]

preferred ==
  << <<"gemini-2.5-flash">>, <<"gemini-2.0-flash">>,
     <<"gemini-2.0-flash-001">>, <<"gemini-2.0-flash-lite">> >>

\* Array.prototype.map(m => shortModelName(m.name))
shortNames(ms) == [k \in 1..Len(ms) |-> shortModelName(ms[k].name)]

hasStringName(m) == m.hasName
nonEmpty(n) == n # <<>>
namedAndCapable(m) == m.hasName /\ modelSupportsGenerateContent(m)

available(models) ==
  SelectSeq(shortNames(SelectSeq(models, hasStringName)), nonEmpty)

generateCapable(models) ==
  LET ms == SelectSeq(models, namedAndCapable)
  IN  {shortModelName(ms[k].name) : k \in 1..Len(ms)}

\* for (const p of preferred) if (available.includes(p)) candidates.push(p)
RECURSIVE pushPreferred(_, _, _)
pushPreferred(acc, ps, av) ==
  IF ps = <<>> THEN acc
  ELSE pushPreferred(IF InSeq(Head(ps), av) THEN Append(acc, Head(ps)) ELSE acc,
                     Tail(ps), av)

\* for (const a of available) if (!candidates.includes(a)) candidates.push(a)
RECURSIVE pushRemaining(_, _)
pushRemaining(acc, av) ==
  IF av = <<>> THEN acc
  ELSE pushRemaining(IF ~InSeq(Head(av), acc) THEN Append(acc, Head(av)) ELSE acc,
                     Tail(av))

\* candidatesOf without the preference pass: plain catalog order
candidatesOf_catalogOrder(ms) == pushRemaining(<<>>, available(ms))

\* candidatesOf pushing every available name in the second pass
candidatesOf_noDedupe(ms) ==
  pushPreferred(<<>>, preferred, available(ms)) \o available(ms)

candidatesOf(ms) ==
  pushRemaining(pushPreferred(<<>>, preferred, available(ms)), available(ms))

\* skipsCandidate without the size test: an empty set skips everything
skipsCandidate_noSizeCheck(capable, model) == model \notin capable

\* if (generateCapable.size > 0 && !generateCapable.has(model)) continue
skipsCandidate(capable, model) == capable # {} /\ model \notin capable

\* the first candidate at index >= from that the capability filter lets
\* through, 0 when the candidate loop ends without one
RECURSIVE nextAttempted(_, _, _)
nextAttempted(cands, capable, from) ==
  IF from > Len(cands) THEN 0
  ELSE (IF skipsCandidate(capable, cands[from])
          THEN nextAttempted(cands, capable, from + 1)
          ELSE from)

(* ---------- program constants ---------- *)
\* the version list with v1 first
Versions_v1First == <<"v1", "v1beta">>

Versions == <<"v1beta", "v1">>
\* one retry more than generateContent asks for
GenRetries_four == 2 + 2

\* the `retries` argument generateContent passes to postJsonWithRetry
GenRetries == 3

\* postJsonWithRetryStep with `i <= retries` for `i < retries`
postJsonWithRetryStep_offByOne(i, n, o) ==
  IF o.kind = "resp"
    THEN (IF respOk(o.status) THEN [act |-> "return", wait |-> 0]
          ELSE IF isRetryableStatus(o.status) /\ i <= n
            THEN [act |-> "sleep", wait |-> backoffWait(i)]
          ELSE [act |-> "return", wait |-> 0])
    ELSE (IF i <= n THEN [act |-> "sleep", wait |-> backoffWait(i)]
          ELSE [act |-> "throw", wait |-> 0])

\* one iteration of the loop of postJsonWithRetry on the outcome o of
\* attempt i: sleep and go round again, return {resp, raw}, or rethrow
postJsonWithRetryStep(i, n, o) ==
  IF o.kind = "resp"
    THEN (IF respOk(o.status) THEN [act |-> "return", wait |-> 0]
          ELSE IF isRetryableStatus(o.status) /\ i < n
            THEN [act |-> "sleep", wait |-> backoffWait(i)]
          ELSE [act |-> "return", wait |-> 0])
    ELSE (IF i < n THEN [act |-> "sleep", wait |-> backoffWait(i)]
          ELSE [act |-> "throw", wait |-> 0])

\* what generateContent does with the terminal outcome o of
\* postJsonWithRetry: return the text, or throw an Error with a message
GenOk(text)   == [kind |-> "ok", text |-> text, msg |-> <<>>]
GenError(msg) == [kind |-> "error", text |-> "", msg |-> msg]

\* generateContent without the test for a missing or blank text
generateContent_noEmptyCheck(version, model, o) ==
  IF o.kind = "throw" THEN GenError(o.msg)
  ELSE IF ~respOk(o.status)
    THEN GenError(<<"Gemini generateContent failed (", version, "/">> \o model
                  \o <<")", ": ", ToString(o.status), " ">> \o o.raw)
  ELSE IF ~jsonParses(o.raw)
    THEN GenError(<<"Unexpected token ">> \o o.raw \o <<" is not valid JSON">>)
  ELSE GenOk(IF hasText(o.raw) THEN textOf(o.raw) ELSE "")

generateContent(version, model, o) ==
  IF o.kind = "throw" THEN GenError(o.msg)
  ELSE IF ~respOk(o.status)
    THEN GenError(<<"Gemini generateContent failed (", version, "/">> \o model
                  \o <<")", ": ", ToString(o.status), " ">> \o o.raw)
  ELSE IF ~jsonParses(o.raw)
    THEN GenError(<<"Unexpected token ">> \o o.raw \o <<" is not valid JSON">>)
  ELSE IF ~hasText(o.raw) \/ trim(textOf(o.raw)) = ""
    THEN GenError(<<"Gemini response is empty (", version, "/">> \o model
                  \o <<")", ". raw=">> \o o.raw)
  ELSE GenOk(textOf(o.raw))

(* ---------- state ---------- *)
VARIABLES
  pc,          \* where the running call is suspended
  vi,          \* index in Versions of the version loop
  models,      \* `models` of the latest version iteration that listed
  candidates,  \* `candidates` of that iteration
  ci,          \* index in candidates the candidate loop has reached
  i,           \* loop counter of postJsonWithRetry
  retries,     \* `retries` argument of the running postJsonWithRetry
  waits,       \* sleeps of the running postJsonWithRetry, in order
  attempts,    \* fetches of the running postJsonWithRetry
  last,        \* outcome the most recent request settled with
  reqs,        \* every listModels / generateContent call made, in order
  listed,      \* per version: "none", "ok" or "failed" list-models
  result,      \* what generateWithAutoPick returned or threw
  lastErr,     \* `lastErr` of the running postJsonWithRetry
  outs,        \* postJsonWithRetry alone: every attempt outcome, in order
  ret,         \* postJsonWithRetry alone: what it returned or threw
  req,         \* the HTTP request the handler is serving
  res,         \* the HTTP response the handler has sent
  ncalls,      \* handler invocations so far
  prev,        \* the version the previous invocation picked, if it picked one
  inflight,    \* requests and sleeps issued and not yet settled
  logged,      \* console entries written by the latest step
  fpc,         \* position of the transport call followed on its own
  caller,      \* the function that called fetchWithTimeout
  timer,       \* the timeout timer `t` of fetchWithTimeout
  signal,      \* controller.signal: "clear" or "aborted"
  now,         \* wall clock, in ms
  issuedAt,    \* clock value at which fetch was issued
  state,       \* App.vue: the persisted reactive `state`
  loading,     \* App.vue: the reactive `loading` flags
  error,       \* App.vue: the reactive `error` messages
  keyword,     \* App.vue: the search box
  followUpQuestion, \* App.vue: the question box
  pending      \* App.vue: the fetches issued and not yet settled, a bag

fetchVars == <<fpc, caller, timer, signal, now, issuedAt>>

progVars == <<pc, vi, models, candidates, ci, i, retries, waits, attempts, last,
              reqs, listed, result, lastErr, outs, ret, req, res, ncalls, prev,
              inflight, logged>>

uiVars == <<state, loading, error, keyword, followUpQuestion, pending>>

vars == <<progVars, fetchVars, uiVars>>

\* a timer handle: pending until it fires or is cleared
NoTimer == [armed |-> FALSE, due |-> 0]

ListReq(v)   == [kind |-> "list", version |-> v, model |-> <<>>]
GenReq(v, m) == [kind |-> "gen", version |-> v, model |-> m]

NoResult == [kind |-> "none", version |-> "", model |-> <<>>, text |-> "", msg |-> <<>>]
Picked(v, m, text) == [kind |-> "ok", version |-> v, model |-> m, text |-> text, msg |-> <<>>]
Failed(msg) == [kind |-> "error", version |-> "", model |-> <<>>, text |-> "", msg |-> msg]

\* a pending `await sleep(wait)`
SleepOp(wait) == [kind |-> "sleep", version |-> "", model |-> <<>>, wait |-> wait]

\* the operation the suspended call is awaiting
Awaited ==
  CASE pc = "list"  -> {ListReq(Versions[vi])}
    [] pc = "gen"   -> {GenReq(Versions[vi], candidates[ci])}
    [] pc = "sleep" -> {SleepOp(waits[Len(waits)])}
    [] OTHER        -> {}

\* the awaited operation has settled and the call awaits `ops` instead
Awaiting(ops) == (inflight \ Awaited) \cup ops

ExhaustedMsg == <<"No working Gemini model found (checked v1beta/v1).">>

\* how postJsonWithRetry ended: it returned {resp, raw} or threw
NotReturned  == [how |-> "none", out |-> NoOutcome]
Returned(o)  == [how |-> "return", out |-> o]
Rethrown(o)  == [how |-> "throw", out |-> o]

(* ---------- the HTTP handler ---------- *)
\* a field of the request body: a string, or a value of another type
\* (undefined included)
StrField(text) == [isString |-> TRUE, text |-> text]
NonString      == [isString |-> FALSE, text |-> ""]
Fields == {StrField("article"), StrField("  "), NonString}

Requests ==
  [method : {"POST", "GET"}, articleText : Fields, question : Fields,
   keySet : BOOLEAN]
NoRequest ==
  [method |-> "", articleText |-> NonString, question |-> NonString,
   keySet |-> FALSE]

\* res.status(code).json({error}) / res.status(200).json({answer})
NoResponse        == [status |-> 0, answer |-> "", error |-> <<>>]
ErrorResponse(code, msg) == [status |-> code, answer |-> "", error |-> msg]
AnswerResponse(text)     == [status |-> 200, answer |-> text, error |-> <<>>]

\* typeof f !== 'string' || f.trim() === ''
blankField(f) == ~f.isString \/ trim(f.text) = ""

\* handlerReject testing the API key before the body fields
handlerReject_keyFirst(r) ==
  IF r.method # "POST" THEN ErrorResponse(405, <<"POST method required.">>)
  ELSE IF ~r.keySet THEN ErrorResponse(500, <<"GEMINI_API_KEY not set">>)
  ELSE IF blankField(r.articleText) \/ blankField(r.question)
    THEN ErrorResponse(400, <<"articleText and question required">>)
  ELSE NoResponse

\* the checks of the handler before the try block: the response it sends
\* at once, NoResponse when the request passes them
handlerReject(r) ==
  IF r.method # "POST" THEN ErrorResponse(405, <<"POST method required.">>)
  ELSE IF blankField(r.articleText) \/ blankField(r.question)
    THEN ErrorResponse(400, <<"articleText and question required">>)
  ELSE IF ~r.keySet THEN ErrorResponse(500, <<"GEMINI_API_KEY not set">>)
  ELSE NoResponse

\* the end of the try block and its catch: 200 with the trimmed text, or
\* 500 with the message of the error generateWithAutoPick threw
handlerResponse(r) ==
  IF r.kind = "ok" THEN AnswerResponse(trim(r.text))
  ELSE ErrorResponse(500, r.msg)

\* the pick of an invocation, as a later invocation could remember it
NoPrev == [kind |-> "none", version |-> ""]

(* ---------- console output and requests on the wire ---------- *)
\* a console entry: the call, its fixed text and the values it interpolates
LogEntry(fn, text, from) == [fn |-> fn, text |-> text, from |-> from]

\* the values an error message is built from: the message of the error
\* fetch threw, or the context, status and raw body of a response
messageFrom(o, ctx) ==
  IF o.kind = "throw" THEN {"fetch error"} ELSE ctx \cup {"resp.status", "raw"}

\* the [DEBUG] entries printing the key itself
handlerLogs_keyValue(r) ==
  {LogEntry("log", "=== [VER 3.0] answer-question ===", {})}
  \cup IF r.method # "POST" THEN {}
       ELSE {LogEntry("log", "[DEBUG] GEMINI_API_KEY set:", {"geminiApiKey"}),
             LogEntry("log", "[DEBUG] articleText length:", {"articleText.length"}),
             LogEntry("log", "[DEBUG] question provided:", {"question is a non-blank string"})}

\* the entries the handler writes before it validates the request
handlerLogs(r) ==
  {LogEntry("log", "=== [VER 3.0] answer-question ===", {})}
  \cup IF r.method # "POST" THEN {}
       ELSE {LogEntry("log", "[DEBUG] GEMINI_API_KEY set:", {"!!geminiApiKey"}),
             LogEntry("log", "[DEBUG] articleText length:", {"articleText.length"}),
             LogEntry("log", "[DEBUG] question provided:", {"question is a non-blank string"})}

\* console.warn in postJsonWithRetry before a backoff sleep
retryLogs(o) ==
  IF o.kind = "throw"
    THEN {LogEntry("warn", "[WARN] Network/timeout error. retry", {"wait", "fetch error"})}
    ELSE {LogEntry("warn", "[WARN] Retryable status", {"resp.status", "wait"})}

\* console.warn in the catch around listModels
listFailedLogs(o) ==
  {LogEntry("warn", "[WARN] listModels failed", {"version"} \cup messageFrom(o, {"version"}))}

\* console.warn in the catch around generateContent
genFailedLogs(o) ==
  {LogEntry("warn", "[WARN] generateContent failed:", messageFrom(o, {"version", "model"}))}

\* what the handler writes once generateWithAutoPick has ended with r
finalLogs(r) ==
  CASE r.kind = "ok" ->
         {LogEntry("log", "[DEBUG] Gemini picked:", {"version", "model"})}
    [] r.kind = "error" ->
         {LogEntry("error", "An error occurred in answer-question handler:",
                   IF r.msg = ExhaustedMsg THEN {}
                   ELSE {"version", "model", "resp.status", "raw", "fetch error"})}
    [] OTHER -> {}

\* the request of an operation as fetch receives it: where the values of
\* the call go
Wire(op) ==
  IF op.kind = "list"
    THEN [method |-> "GET", url |-> {"version"},
          headers |-> [h \in {"x-goog-api-key"} |-> {"apiKey"}], body |-> {}]
    ELSE [method |-> "POST", url |-> {"version", "model"},
          headers |-> [h \in {"x-goog-api-key", "Content-Type"} |->
                         IF h = "x-goog-api-key" THEN {"apiKey"} ELSE {}],
          body |-> {"prompt"}]


(* ---------- App.vue: the page ---------- *)
\* The page is modelled by the fields its handlers read and write. An
\* article is modelled by its url, the only field the handlers read; texts
\* are token sequences, <<>> the empty string.

\* the initial keyword of the search box
InitialKeyword == "handotai"

\* what the search box can hold: nothing, or a keyword
Keywords == {"", InitialKeyword}

\* the urls of the articles the news search can return
Urls == {"url-a", "url-b"}

\* state.selectedArticle = null
NoArticle == "null"

\* what the user types into the question box
Question == "question"

\* data.articleText of a successful fetch-article-content for url
ArticleText(url) == <<"text", url>>

\* data.summary of a successful summarize-article of text
SummaryOf(text) == <<"summary">> \o text

\* data.answer of a successful answer-question about text
AnswerOf(text) == <<"answer">> \o text

\* e.message in the catch blocks: data.error of a non-2xx response, or the
\* message of the error fetch or response.json() threw
FailureMessages == {"request failed"}

\* the fetches of the page
NewsReq(k)       == [kind |-> "news", arg |-> <<k>>]
ContentReq(url)  == [kind |-> "content", arg |-> <<url>>]
SummaryReq(text) == [kind |-> "summary", arg |-> text]
AnswerReq(text)  == [kind |-> "answer", arg |-> text]

\* the reactive `state` as the script creates it
InitialState ==
  [lastSearchedKeyword |-> InitialKeyword,
   articles |-> {},
   selectedArticle |-> NoArticle,
   selectedArticleContent |-> <<>>,
   summaryResult |-> <<>>,
   qaHistory |-> <<>>]

\* fetch(...) is called: one more request in flight
issue(r) == pending (+) SetToBag({r})

\* the awaited request r settles and the requests rs are issued by the
\* continuation
settle(r, rs) == (pending (-) SetToBag({r})) (+) SetToBag(rs)


Init ==
  /\ pc = "idle"
  /\ req = NoRequest
  /\ res = NoResponse
  /\ ncalls = 0
  /\ prev = NoPrev
  /\ inflight = {}
  /\ logged = {}
  /\ vi = 1
  /\ models = <<>>
  /\ candidates = <<>>
  /\ ci = 0
  /\ i = 0
  /\ retries = 0
  /\ waits = <<>>
  /\ attempts = 0
  /\ last = NoOutcome
  /\ reqs = <<>>
  /\ listed = [v \in {"v1beta", "v1"} |-> "none"]
  /\ result = NoResult
  /\ lastErr = NoOutcome
  /\ outs = <<>>
  /\ ret = NotReturned
  /\ fpc = "idle"
  /\ caller = ""
  /\ timer = NoTimer
  /\ signal = "clear"
  /\ now = 0
  /\ issuedAt = 0
  /\ state = InitialState
  /\ loading = [news |-> FALSE, content |-> FALSE, summary |-> FALSE, answer |-> FALSE]
  /\ error = [news |-> "", content |-> "", summary |-> "", answer |-> ""]
  /\ keyword = InitialState.lastSearchedKeyword
  /\ followUpQuestion = ""
  /\ pending = EmptyBag

\* the version loop stopping after its first version
EnterVersion_firstOnly(k) ==
  IF k <= 1
    THEN /\ vi' = k
         /\ pc' = "list"
         /\ reqs' = Append(reqs, ListReq(Versions[k]))
         /\ inflight' = Awaiting({ListReq(Versions[k])})
         /\ result' = result
    ELSE /\ vi' = vi
         /\ pc' = "done"
         /\ reqs' = reqs
         /\ inflight' = Awaiting({})
         /\ result' = Failed(ExhaustedMsg)


\* the version loop reaches version index k: list its models, or leave the
\* loop and throw the exhaustion error
EnterVersion(k) ==
  IF k <= Len(Versions)
    THEN /\ vi' = k
         /\ pc' = "list"
         /\ reqs' = Append(reqs, ListReq(Versions[k]))
         /\ inflight' = Awaiting({ListReq(Versions[k])})
         /\ result' = result
    ELSE /\ vi' = vi
         /\ pc' = "done"
         /\ reqs' = reqs
         /\ inflight' = Awaiting({})
         /\ result' = Failed(ExhaustedMsg)

\* `break` for `continue`: a failed listing ends the version loop
afterListFailure_break(k) == Len(Versions) + 1

\* a failed listing tried again on the same version
afterListFailure_again(k) == k

\* `continue` in the catch around listModels: the version the loop goes on with
afterListFailure(k) == k + 1

\* the candidate loop sending the requests of all remaining candidates at
\* once and awaiting the first of them
CandidateLoop_fanOut(cs, capable, from) ==
  LET k == nextAttempted(cs, capable, from)
  IN  IF k # 0
        THEN /\ ci' = k
             /\ vi' = vi
             /\ pc' = "gen"
             /\ i' = 0
             /\ retries' = GenRetries
             /\ waits' = <<>>
             /\ attempts' = 1
             /\ lastErr' = NoOutcome
             /\ reqs' = Append(reqs, GenReq(Versions[vi], cs[k]))
             /\ inflight' = Awaiting({GenReq(Versions[vi], cs[j]) :
                                        j \in {n \in k..Len(cs) : ~skipsCandidate(capable, cs[n])}})
             /\ result' = result
        ELSE /\ ci' = Len(cs) + 1
             /\ EnterVersion(vi + 1)
             /\ UNCHANGED <<i, retries, waits, attempts, lastErr>>


\* the candidate loop of version vi goes on from index `from` of cs: the
\* next candidate the filter lets through is attempted; past the last
\* candidate the version loop goes on
CandidateLoop(cs, capable, from) ==
  LET k == nextAttempted(cs, capable, from)
  IN  IF k # 0
        THEN /\ ci' = k
             /\ vi' = vi
             /\ pc' = "gen"
             /\ i' = 0
             /\ retries' = GenRetries
             /\ waits' = <<>>
             /\ attempts' = 1
             /\ lastErr' = NoOutcome
             /\ reqs' = Append(reqs, GenReq(Versions[vi], cs[k]))
             /\ inflight' = Awaiting({GenReq(Versions[vi], cs[k])})
             /\ result' = result
        ELSE /\ ci' = Len(cs) + 1
             /\ EnterVersion(vi + 1)
             /\ UNCHANGED <<i, retries, waits, attempts, lastErr>>

\* generateWithAutoPick resuming at the version that worked in the
\* preceding invocation
Call_cached ==
  /\ pc = "idle"
  /\ EnterVersion(IF prev.kind = "ok" /\ prev.version = "v1" THEN 2 ELSE 1)
  /\ UNCHANGED <<models, candidates, ci, i, retries, waits, attempts, last,
                 listed, lastErr, outs, ret>>


\* generateWithAutoPick is called: the first list-models request goes out
Call ==
  /\ pc = "idle"
  /\ EnterVersion(1)
  /\ UNCHANGED <<models, candidates, ci, i, retries, waits, attempts, last,
                 listed, lastErr, outs, ret>>

\* the handler is invoked with a request: it answers at once when a check
\* fails, otherwise it calls generateWithAutoPick
Handler ==
  /\ UNCHANGED <<fetchVars, uiVars>>
  /\ pc = "idle"
  /\ ncalls' = ncalls + 1
  /\ prev' = prev
  /\ \E r \in Requests :
       /\ req' = r
       /\ logged' = handlerLogs(r)
       /\ IF handlerReject(r) # NoResponse
            THEN /\ res' = handlerReject(r)
                 /\ pc' = "done"
                 /\ UNCHANGED <<vi, models, candidates, ci, i, retries, waits,
                                attempts, last, reqs, listed, result, lastErr,
                                outs, ret, inflight>>
            ELSE /\ res' = res
                 /\ Call

\* generateWithAutoPick has ended in this step: the handler sends its
\* response
HandlerResumes ==
  /\ res' = IF pc' = "done" THEN handlerResponse(result') ELSE res
  /\ UNCHANGED <<req, ncalls, prev>>

\* the body text of a list-models response
listRaw(o) ==
  CASE o.parse = "bad" -> BodyHtml
    [] o.parse = "nomodels" -> <<"{", "}">>
    [] OTHER -> <<"{", "\"models\"", "}">>

\* listModels throws: fetch rejected, !resp.ok, or JSON.parse threw
listModelsThrows(o) == o.kind = "throw" \/ ~respOk(o.status) \/ o.parse = "bad"

\* Array.isArray(data?.models) ? data.models : []
listModelsResult(o) == IF o.parse = "ok" THEN o.models ELSE <<>>

\* the list-models request of the current version settles; models,
\* candidates and ci keep the values of this iteration until the next
\* list-models response
ListResponseOf(outcomes) ==
  /\ UNCHANGED <<fetchVars, uiVars>>
  /\ pc = "list"
  /\ \E o \in outcomes :
       LET v == Versions[vi]
           ms == listModelsResult(o)
       IN  /\ last' = IF o.kind = "throw" THEN Thrown(<<"fetch failed">>)
                      ELSE Resp(o.status, listRaw(o))
           /\ IF listModelsThrows(o)
                THEN /\ listed' = [listed EXCEPT ![v] = "failed"]
                     /\ models' = <<>>
                     /\ candidates' = <<>>
                     /\ ci' = 0
                     /\ EnterVersion(afterListFailure(vi))
                     /\ UNCHANGED <<i, retries, waits, attempts, lastErr>>
                ELSE /\ listed' = [listed EXCEPT ![v] = "ok"]
                     /\ models' = ms
                     /\ candidates' = candidatesOf(ms)
                     /\ CandidateLoop(candidatesOf(ms), generateCapable(ms), 1)
           /\ logged' = (IF listModelsThrows(o) THEN listFailedLogs(o) ELSE {})
                          \cup (IF pc' = "done" THEN finalLogs(result') ELSE {})
  /\ HandlerResumes
  /\ UNCHANGED <<outs, ret>>

ListResponse == ListResponseOf(ListOutcomes)

\* a generate-content attempt settles (fetch resolved and body read, or
\* fetch / resp.text() rejected): postJsonWithRetry sleeps, or ends and
\* generateContent and the catch of generateWithAutoPick run
GenResponse ==
  /\ UNCHANGED <<fetchVars, uiVars>>
  /\ pc = "gen"
  /\ \E o \in GenOutcomes :
       LET step == postJsonWithRetryStep(i, retries, o)
           v == Versions[vi]
           m == candidates[ci]
           g == generateContent(v, m, o)
       IN  /\ last' = o
           /\ IF step.act = "sleep"
                THEN /\ pc' = "sleep"
                     /\ waits' = Append(waits, step.wait)
                     /\ lastErr' = IF o.kind = "throw" THEN o ELSE lastErr
                     /\ inflight' = Awaiting({SleepOp(step.wait)})
                     /\ UNCHANGED <<vi, models, candidates, ci, i, retries,
                                    attempts, reqs, result>>
              ELSE IF g.kind = "ok"
                THEN /\ pc' = "done"
                     /\ result' = Picked(v, m, g.text)
                     /\ inflight' = Awaiting({})
                     /\ UNCHANGED <<vi, models, candidates, ci, i, retries,
                                    waits, attempts, reqs, lastErr>>
              ELSE IF isGeminiNotFoundOrUnsupported(g.msg)
                THEN /\ CandidateLoop(candidates, generateCapable(models), ci + 1)
                     /\ UNCHANGED <<models, candidates>>
              ELSE /\ pc' = "done"
                   /\ result' = Failed(g.msg)
                   /\ inflight' = Awaiting({})
                   /\ lastErr' = IF o.kind = "throw" THEN o ELSE lastErr
                   /\ UNCHANGED <<vi, models, candidates, ci, i, retries,
                                  waits, attempts, reqs>>
           /\ logged' = (IF step.act = "sleep" THEN retryLogs(o)
                          ELSE IF g.kind = "ok" THEN {}
                          ELSE genFailedLogs(o))
                          \cup (IF pc' = "done" THEN finalLogs(result') ELSE {})
  /\ HandlerResumes
  /\ UNCHANGED <<listed, outs, ret>>

\* the backoff sleep ends: `continue`, i++ and the test i <= retries of the
\* loop of postJsonWithRetry, then the next fetch (or the throw after the loop)
SleepDone ==
  /\ UNCHANGED <<fetchVars, uiVars>>
  /\ pc = "sleep"
  /\ i' = i + 1
  /\ last' = NoOutcome
  /\ IF i + 1 <= retries
       THEN /\ pc' = "gen"
            /\ attempts' = attempts + 1
            /\ inflight' = Awaiting({GenReq(Versions[vi], candidates[ci])})
            /\ result' = result
       ELSE /\ pc' = "done"
            /\ attempts' = attempts
            /\ inflight' = Awaiting({})
            /\ result' = Failed(IF lastErr.kind = "throw" THEN lastErr.msg
                                ELSE <<"Unknown error">>)
  /\ logged' = IF pc' = "done" THEN finalLogs(result') ELSE {}
  /\ HandlerResumes
  /\ UNCHANGED <<vi, models, candidates, ci, retries, waits, reqs, listed,
                 lastErr, outs, ret>>

Next == Handler \/ ListResponse \/ GenResponse \/ SleepDone

Spec == Init /\ [][Next]_vars

\* every network request and every sleep of a call completes: the promise
\* the call awaits is settled and the call resumes
ListResponseLive == ListResponseOf(LiveListOutcomes)

NextLive == Handler \/ ListResponseLive \/ GenResponse \/ SleepDone

SpecLive ==
  /\ Init
  /\ [][NextLive]_vars
  /\ WF_vars(ListResponseLive \/ GenResponse \/ SleepDone)

(* ---------- postJsonWithRetry on its own ---------- *)
\* attempt outcomes handed to postJsonWithRetry when it is run alone
PostOutcomes ==
  TransportErrors \cup {Resp(s, b) : s \in Statuses, b \in {BodyAnswer, BodyDenied}}

\* postJsonWithRetry(url, init, timeoutMs, n) is called: attempt 0 goes out
PostCall ==
  /\ UNCHANGED <<fetchVars, uiVars>>
  /\ pc = "idle"
  /\ \E n \in 0..MaxRetries : retries' = n
  /\ pc' = "post"
  /\ i' = 0
  /\ attempts' = 1
  /\ waits' = <<>>
  /\ lastErr' = NoOutcome
  /\ outs' = <<>>
  /\ ret' = NotReturned
  /\ UNCHANGED <<vi, models, candidates, ci, last, reqs, listed, result,
                 req, res, ncalls, prev, inflight, logged>>

\* attempt i settles
PostResponse ==
  /\ UNCHANGED <<fetchVars, uiVars>>
  /\ pc = "post"
  /\ \E o \in PostOutcomes :
       LET step == postJsonWithRetryStep(i, retries, o)
       IN  /\ last' = o
           /\ outs' = Append(outs, o)
           /\ lastErr' = IF o.kind = "throw" THEN o ELSE lastErr
           /\ IF step.act = "sleep"
                THEN /\ pc' = "backoff"
                     /\ waits' = Append(waits, step.wait)
                     /\ ret' = ret
              ELSE /\ pc' = "returned"
                   /\ waits' = waits
                   /\ ret' = IF step.act = "return" THEN Returned(o) ELSE Rethrown(o)
  /\ UNCHANGED <<vi, models, candidates, ci, i, retries, attempts, reqs,
                 listed, result, req, res, ncalls, prev, inflight, logged>>

\* the backoff sleep ends: i++, the loop test, the next attempt
PostSleepDone ==
  /\ UNCHANGED <<fetchVars, uiVars>>
  /\ pc = "backoff"
  /\ i' = i + 1
  /\ IF i + 1 <= retries
       THEN /\ pc' = "post"
            /\ attempts' = attempts + 1
            /\ ret' = ret
       ELSE /\ pc' = "returned"
            /\ attempts' = attempts
            /\ ret' = Rethrown(IF lastErr.kind = "throw" THEN lastErr
                               ELSE Thrown(<<"Unknown error">>))
  /\ UNCHANGED <<vi, models, candidates, ci, retries, waits, last, reqs,
                 listed, result, lastErr, outs, req, res, ncalls, prev, inflight, logged>>

NextRetry == PostCall \/ PostResponse \/ PostSleepDone

\* ----- successive invocations -----
\* an invocation has ended and the function is invoked again: every local
\* of handler and generateWithAutoPick is created anew; prev is the pick
\* the invocation that ended could have handed on
NextRequest ==
  /\ UNCHANGED <<fetchVars, uiVars>>
  /\ pc = "done"
  /\ ncalls < MaxCalls
  /\ prev' = IF result.kind = "ok"
               THEN [kind |-> "ok", version |-> result.version]
               ELSE NoPrev
  /\ pc' = "idle"
  /\ req' = NoRequest
  /\ res' = NoResponse
  /\ vi' = 1
  /\ models' = <<>>
  /\ candidates' = <<>>
  /\ ci' = 0
  /\ i' = 0
  /\ retries' = 0
  /\ waits' = <<>>
  /\ attempts' = 0
  /\ last' = NoOutcome
  /\ reqs' = <<>>
  /\ listed' = [v \in {"v1beta", "v1"} |-> "none"]
  /\ result' = NoResult
  /\ lastErr' = NoOutcome
  /\ inflight' = {}
  /\ logged' = {}
  /\ UNCHANGED <<ncalls, outs, ret>>

NextCalls == NextLive \/ NextRequest

SpecCalls == Init /\ [][NextCalls]_vars


SpecRetry == Init /\ [][NextRetry]_vars

(* ---------- fetchWithTimeout on its own ---------- *)
\* the timeouts the two callers pass
ListTimeoutMs == 15000
GenTimeoutMs == 30000

\* the callers of fetchWithTimeout
Callers == {"listModels", "generateContent"}

\* the callers with their timeouts exchanged
timeoutOf_swapped(c) == IF c = "listModels" THEN GenTimeoutMs ELSE ListTimeoutMs

\* timeoutMs as the caller passes it (postJsonWithRetry hands it through)
timeoutOf(c) == IF c = "listModels" THEN ListTimeoutMs ELSE GenTimeoutMs

\* setTimeout(() => controller.abort(), ms) called at clock value `at`
setTimeout(at, ms) == [armed |-> TRUE, due |-> at + ms]

\* a finally block that leaves the timer alone
clearTimeout_noop(h) == h

\* clearTimeout(t)
clearTimeout(h) == NoTimer

\* the amounts of time that pass between two events, and the end of the
\* period the clock is followed for
Steps == {5000, 10000}
Horizon == MaxTicks * 5000

\* fetchWithTimeout is called: the timer is armed and fetch is issued
FetchCall ==
  /\ fpc = "idle"
  /\ \E c \in Callers :
       /\ caller' = c
       /\ timer' = setTimeout(now, timeoutOf(c))
  /\ signal' = "clear"
  /\ issuedAt' = now
  /\ fpc' = "fetch"
  /\ UNCHANGED <<now, progVars, uiVars>>

\* fetch resolves (the response headers have arrived): the finally block
\* runs, fetchWithTimeout returns and the caller awaits resp.text()
FetchResolves ==
  /\ fpc = "fetch"
  /\ timer' = clearTimeout(timer)
  /\ fpc' = "body"
  /\ UNCHANGED <<caller, signal, now, issuedAt, progVars, uiVars>>

\* fetch rejects with a network error: the finally block runs and
\* fetchWithTimeout throws
FetchRejects ==
  /\ fpc = "fetch"
  /\ timer' = clearTimeout(timer)
  /\ fpc' = "thrown"
  /\ UNCHANGED <<caller, signal, now, issuedAt, progVars, uiVars>>

\* the timer is due: controller.abort() runs, the pending fetch (or body
\* read) on that signal rejects, the finally block runs
TimerFires ==
  /\ timer.armed
  /\ now >= timer.due
  /\ signal' = "aborted"
  /\ timer' = NoTimer
  /\ fpc' = IF fpc \in {"fetch", "body"} THEN "thrown" ELSE fpc
  /\ UNCHANGED <<caller, now, issuedAt, progVars, uiVars>>

\* resp.text() resolves: the body has been read
BodyRead ==
  /\ fpc = "body"
  /\ fpc' = "returned"
  /\ UNCHANGED <<caller, timer, signal, now, issuedAt, progVars, uiVars>>

\* resp.text() rejects: the connection broke while the body was read
BodyFails ==
  /\ fpc = "body"
  /\ fpc' = "thrown"
  /\ UNCHANGED <<caller, timer, signal, now, issuedAt, progVars, uiVars>>

\* the caller goes on; a later call creates its own controller and timer
CallEnds ==
  /\ fpc \in {"returned", "thrown"}
  /\ fpc' = "idle"
  /\ caller' = ""
  /\ signal' = "clear"
  /\ UNCHANGED <<timer, now, issuedAt, progVars, uiVars>>

\* time passes, up to the moment the next timer is due
Tick ==
  /\ \E d \in Steps :
       /\ now + d <= Horizon
       /\ timer.armed => now + d <= timer.due
       /\ now' = now + d
  /\ UNCHANGED <<fpc, caller, timer, signal, issuedAt, progVars, uiVars>>

NextFetch ==
  \/ FetchCall
  \/ FetchResolves
  \/ FetchRejects
  \/ TimerFires
  \/ BodyRead
  \/ BodyFails
  \/ CallEnds
  \/ Tick

SpecFetch == Init /\ [][NextFetch]_vars


(* ---------- App.vue: the handlers of the page ---------- *)
\* the user edits the search box (v-model="keyword")
TypeKeyword ==
  /\ \E k \in Keywords \ {keyword} : keyword' = k
  /\ UNCHANGED <<state, loading, error, followUpQuestion, pending, progVars, fetchVars>>

\* the user edits the question box, shown while an article is selected
TypeQuestion ==
  /\ state.selectedArticle # NoArticle
  /\ \E q \in {"", Question} \ {followUpQuestion} : followUpQuestion' = q
  /\ UNCHANGED <<state, loading, error, keyword, pending, progVars, fetchVars>>

\* fetchNews up to its await, started by the button or by Enter in the
\* search box: reject an empty keyword, or reset the state and send the
\* fetch-news request
fetchNews ==
  /\ IF keyword = ""
       THEN /\ error' = [error EXCEPT !.news = "keyword required"]
            /\ UNCHANGED <<state, loading, followUpQuestion, pending>>
       ELSE /\ BagCardinality(pending) < MaxPending
            /\ loading' = [loading EXCEPT !.news = TRUE]
            /\ error' = [error EXCEPT !.news = ""]
            /\ state' = [state EXCEPT !.articles = {},
                                      !.selectedArticle = NoArticle,
                                      !.selectedArticleContent = <<>>,
                                      !.summaryResult = <<>>,
                                      !.qaHistory = <<>>,
                                      !.lastSearchedKeyword = keyword]
            /\ followUpQuestion' = ""
            /\ pending' = issue(NewsReq(keyword))
  /\ UNCHANGED <<keyword, progVars, fetchVars>>

\* fetchNews after its await: the articles of the response, or the message
\* of the failure; finally loading.news is reset
NewsSettles ==
  /\ \E r \in BagToSet(pending) :
       /\ r.kind = "news"
       /\ \/ \E data \in SUBSET Urls :
               /\ state' = [state EXCEPT !.articles = data]
               /\ error' = error
          \/ \E msg \in FailureMessages :
               /\ error' = [error EXCEPT !.news = msg]
               /\ state' = state
       /\ pending' = settle(r, {})
  /\ loading' = [loading EXCEPT !.news = FALSE]
  /\ UNCHANGED <<keyword, followUpQuestion, progVars, fetchVars>>

\* fetchArticleContent up to its await: both flags raised, request sent
fetchArticleContent(url) ==
  /\ loading' = [loading EXCEPT !.content = TRUE, !.summary = TRUE]
  /\ pending' = issue(ContentReq(url))

\* the user clicks an article of the list: nothing when it is the selected
\* one, else select it, reset what belonged to the previous one and fetch
\* its content
selectArticle ==
  /\ \E url \in state.articles :
       IF state.selectedArticle = url
         THEN UNCHANGED <<state, loading, error, followUpQuestion, pending>>
         ELSE /\ BagCardinality(pending) < MaxPending
              /\ state' = [state EXCEPT !.selectedArticle = url,
                                        !.selectedArticleContent = <<>>,
                                        !.summaryResult = <<>>,
                                        !.qaHistory = <<>>]
              /\ followUpQuestion' = ""
              /\ error' = [error EXCEPT !.content = "", !.summary = "", !.answer = ""]
              /\ fetchArticleContent(url)
  /\ UNCHANGED <<keyword, progVars, fetchVars>>

\* fetchArticleContent after its await: keep the text and start
\* summarizeText (which runs up to its own await), or record the failure;
\* finally loading.content is reset
ContentSettles ==
  /\ \E r \in BagToSet(pending) :
       /\ r.kind = "content"
       /\ \/ LET text == ArticleText(r.arg[1])
             IN  /\ state' = [state EXCEPT !.selectedArticleContent = text]
                 /\ pending' = settle(r, {SummaryReq(text)})
                 /\ error' = error
          \/ \E msg \in FailureMessages :
               /\ error' = [error EXCEPT !.content = msg, !.summary = msg]
               /\ pending' = settle(r, {})
               /\ state' = state
  /\ loading' = [loading EXCEPT !.content = FALSE]
  /\ UNCHANGED <<keyword, followUpQuestion, progVars, fetchVars>>

\* summarizeText after its await: the summary, or the message of the
\* failure; finally loading.summary is reset
SummarySettles ==
  /\ \E r \in BagToSet(pending) :
       /\ r.kind = "summary"
       /\ \/ /\ state' = [state EXCEPT !.summaryResult = SummaryOf(r.arg)]
             /\ error' = error
          \/ \E msg \in FailureMessages :
               /\ error' = [error EXCEPT !.summary = msg]
               /\ state' = state
       /\ pending' = settle(r, {})
  /\ loading' = [loading EXCEPT !.summary = FALSE]
  /\ UNCHANGED <<keyword, followUpQuestion, progVars, fetchVars>>

\* askQuestion up to its await, started by the button, which is enabled
\* when a question is typed and no answer is being loaded
askQuestion ==
  /\ state.selectedArticle # NoArticle
  /\ ~loading.answer
  /\ followUpQuestion # ""
  /\ IF state.selectedArticleContent = <<>>
       THEN UNCHANGED <<loading, error, followUpQuestion, pending>>
       ELSE /\ BagCardinality(pending) < MaxPending
            /\ Len(state.qaHistory) < MaxQuestions
            /\ loading' = [loading EXCEPT !.answer = TRUE]
            /\ error' = [error EXCEPT !.answer = ""]
            /\ followUpQuestion' = ""
            /\ pending' = issue(AnswerReq(state.selectedArticleContent))
  /\ UNCHANGED <<state, keyword, progVars, fetchVars>>

\* askQuestion after its await: the answer is put in front of the history,
\* or the failure is recorded; finally loading.answer is reset
AnswerSettles ==
  /\ \E r \in BagToSet(pending) :
       /\ r.kind = "answer"
       /\ \/ /\ state' = [state EXCEPT !.qaHistory =
                            <<[question |-> Question, answer |-> AnswerOf(r.arg)]>> \o @]
             /\ error' = error
          \/ \E msg \in FailureMessages :
               /\ error' = [error EXCEPT !.answer = msg]
               /\ state' = state
       /\ pending' = settle(r, {})
  /\ loading' = [loading EXCEPT !.answer = FALSE]
  /\ UNCHANGED <<keyword, followUpQuestion, progVars, fetchVars>>

\* the page is loaded again: the script runs anew, the fetches of the old
\* page are gone, and loadState restores `state` as the watcher saved it
Reload ==
  /\ state' = state
  /\ keyword' = state.lastSearchedKeyword
  /\ loading' = [news |-> FALSE, content |-> FALSE, summary |-> FALSE, answer |-> FALSE]
  /\ error' = [news |-> "", content |-> "", summary |-> "", answer |-> ""]
  /\ followUpQuestion' = ""
  /\ pending' = EmptyBag
  /\ UNCHANGED <<progVars, fetchVars>>

NextUI ==
  \/ TypeKeyword
  \/ TypeQuestion
  \/ fetchNews
  \/ NewsSettles
  \/ selectArticle
  \/ ContentSettles
  \/ SummarySettles
  \/ askQuestion
  \/ AnswerSettles
  \/ Reload

SpecUI == Init /\ [][NextUI]_vars


(* ---------- properties ---------- *)
\* a generate-content response with the given status has just settled
\* the pending attempt (the step is a GenResponse step)
GenSettledWith(statuses) ==
  pc = "gen" /\ last'.kind = "resp" /\ last'.status \in statuses

\* C1: when the generate-content call for a candidate ends with status 404
\* the selection does not abort: the candidate loop goes on with a later
\* candidate of the same version, and past the last candidate of v1beta
\* list-models is sent to v1 (past the last candidate of v1 the only error
\* is the exhaustion error).
C1_NotFoundContinues ==
  [][ GenSettledWith({404}) =>
        /\ result'.kind = "error" => result'.msg = ExhaustedMsg
        /\ result'.kind # "ok"
        /\ \/ /\ pc' = "gen"
              /\ vi' = vi
              /\ ci' > ci
              /\ ci' <= Len(candidates)
              /\ reqs' = Append(reqs, GenReq(Versions[vi], candidates[ci']))
           \/ /\ ci' = Len(candidates) + 1
              /\ vi = 1
              /\ pc' = "list"
              /\ vi' = 2
              /\ reqs' = Append(reqs, ListReq("v1"))
           \/ /\ ci' = Len(candidates) + 1
              /\ vi = 2
              /\ pc' = "done"
              /\ result'.kind = "error"
              /\ reqs' = reqs ]_vars

\* two v1beta candidates were attempted, the last one ended with 404, and
\* list-models for v1 is now pending
C1_Witness ==
  /\ pc = "list"
  /\ vi = 2
  /\ last.kind = "resp"
  /\ last.status = 404
  /\ Len(reqs) = 4
  /\ reqs[3].kind = "gen"
  /\ reqs[4] = ListReq("v1")

\* C2: when the generate-content call for a candidate ends with status 401
\* or 403, whatever the body, the selection aborts at once: the error is
\* propagated and no further request is issued.
C2_AuthAborts ==
  [][ GenSettledWith({401, 403}) =>
        /\ pc' = "done"
        /\ result'.kind = "error"
        /\ result'.msg # ExhaustedMsg
        /\ reqs' = reqs
        /\ attempts' = attempts ]_vars

\* the statuses the retry policy names, and the outcomes it retries
RetryStatuses == {429, 500, 502, 503, 504}
IsRetryableOutcome(o) ==
  o.kind = "throw" \/ (o.kind = "resp" /\ o.status \in RetryStatuses)
IsTerminalOutcome(o) ==
  o.kind = "resp" /\ ((o.status >= 200 /\ o.status <= 299) \/ o.status \notin RetryStatuses)

\* C3: postJsonWithRetry returns the outcome of the first attempt that is a
\* 2xx response or a non-retryable status; every earlier outcome is
\* retryable and, while fewer than `retries` retries were used, is followed
\* by one backoff sleep and one more attempt.
C3_FirstTerminalOutcome ==
  \A j \in 1..Len(outs) :
    /\ IsTerminalOutcome(outs[j]) =>
         /\ j = Len(outs)
         /\ pc = "returned"
         /\ ret = Returned(outs[j])
         /\ \A k \in 1..(j - 1) : IsRetryableOutcome(outs[k])
    /\ (IsRetryableOutcome(outs[j]) /\ j <= retries) =>
         /\ Len(waits) >= j
         /\ \/ pc = "backoff" /\ attempts = j /\ Len(outs) = j
            \/ attempts >= j + 1

\* two retryable outcomes (one thrown, one status), then a terminal one
C3_Witness ==
  /\ pc = "returned"
  /\ Len(outs) = 3
  /\ outs[1].kind = "throw"
  /\ outs[2].kind = "resp"
  /\ outs[2].status = 502
  /\ outs[3].status = 404
  /\ ret = Returned(outs[3])

\* C4: postJsonWithRetry never makes more than retries+1 attempts; the
\* outcome of attempt number retries+1 is final: a response (retryable
\* status included) is returned as it is, a thrown transport error is
\* rethrown, and no backoff sleep follows that attempt.
C4_FinalAttemptIsFinal ==
  /\ attempts <= retries + 1
  /\ Len(outs) <= retries + 1
  /\ Len(outs) = retries + 1 =>
       /\ pc = "returned"
       /\ Len(waits) = retries
       /\ attempts = retries + 1
       /\ outs[Len(outs)].kind = "resp" => ret = Returned(outs[Len(outs)])
       /\ outs[Len(outs)].kind = "throw" => ret = Rethrown(outs[Len(outs)])

\* the last of retries+1 attempts ended with a retryable status
C4_Witness ==
  /\ pc = "returned"
  /\ retries = 2
  /\ Len(outs) = 3
  /\ outs[3].kind = "resp"
  /\ outs[3].status = 503
  /\ ret = Returned(outs[3])

\* C5: the backoff wait before attempt i (0-indexed, i >= 1) is exactly
\* 800 * 2^(i-1) ms, after a retryable status and after a thrown error
\* alike; no wait precedes attempt 0; with retries = 3 the waits are 800,
\* 1600, 3200 in that order.
C5_BackoffWaits ==
  /\ \A k \in 1..Len(waits) : waits[k] = 800 * (2 ^ (k - 1))
  /\ pc = "post" => Len(waits) = i /\ Len(outs) = i
  /\ pc = "backoff" => Len(waits) = i + 1 /\ Len(outs) = i + 1
  /\ pc = "returned" => Len(waits) = Len(outs) - 1
  /\ (retries = 3 /\ Len(outs) = 4) => waits = <<800, 1600, 3200>>

\* all three waits of a call with retries = 3 happened, after a thrown
\* error and after a retryable status
C5_Witness ==
  /\ pc = "returned"
  /\ retries = 3
  /\ waits = <<800, 1600, 3200>>
  /\ outs[1].kind = "throw"
  /\ outs[2].kind = "resp"
  /\ outs[3].kind = "resp"

\* C6: an attempt is retried only when its outcome is a response with
\* status 429, 500, 502, 503 or 504 or a thrown transport error; a 2xx
\* response or any other status is returned after that attempt, with no
\* backoff and no further attempt.
C6_RetriedOnlyWhenRetryable ==
  \A j \in 1..Len(outs) :
    LET retried == j < Len(outs) \/ pc = "backoff" \/ Len(waits) >= j \/ attempts > j
    IN  /\ retried =>
              \/ outs[j].kind = "throw"
              \/ outs[j].status \in {429, 500, 502, 503, 504}
        /\ (outs[j].kind = "resp" /\ outs[j].status \notin {429, 500, 502, 503, 504}) =>
              /\ ~retried
              /\ pc = "returned"
              /\ ret.how = "return"
              /\ ret.out.status = outs[j].status
              /\ ret.out.raw = outs[j].raw

\* the first attempt ended with 403 although three retries were allowed
C6_Witness ==
  /\ pc = "returned"
  /\ retries = 3
  /\ Len(outs) = 1
  /\ outs[1].kind = "resp"
  /\ outs[1].status = 403
  /\ waits = <<>>
  /\ attempts = 1

\* ----- the catalog as the claims speak of it -----
PreferenceOrder ==
  << <<"gemini-2.5-flash">>, <<"gemini-2.0-flash">>,
     <<"gemini-2.0-flash-001">>, <<"gemini-2.0-flash-lite">> >>
IsPreferredName(n) == \E k \in 1..Len(PreferenceOrder) : PreferenceOrder[k] = n
PreferenceRank(n) == CHOOSE k \in 1..Len(PreferenceOrder) : PreferenceOrder[k] = n

\* the bare name of a descriptor: its name without a leading "models/"
BareName(d) ==
  IF d.name # <<>> /\ Head(d.name) = "models/" THEN Tail(d.name) ELSE d.name
NamedIdx == {k \in 1..Len(models) : models[k].hasName /\ BareName(models[k]) # <<>>}
CatalogNames == {BareName(models[k]) : k \in NamedIdx}
CatalogPos(n) ==
  CHOOSE k \in NamedIdx :
    BareName(models[k]) = n /\ \A j \in NamedIdx : BareName(models[j]) = n => k <= j

\* capability of a descriptor as the service states it
CapabilityUnknown(d) == ~d.hasMethods \/ d.methods = <<>>
AdvertisesGenerate(d) ==
  d.hasMethods /\ \E k \in 1..Len(d.methods) : d.methods[k] = "generateContent"
CapableNames ==
  {BareName(models[k]) :
     k \in {j \in 1..Len(models) :
              models[j].hasName
              /\ (CapabilityUnknown(models[j]) \/ AdvertisesGenerate(models[j]))}}

\* the version `models` and `candidates` belong to
ModelsVersion == IF pc = "list" /\ vi = 2 THEN "v1beta" ELSE Versions[vi]

\* positions in reqs of the generateContent calls of the version of `models`
GenIdx == {a \in 1..Len(reqs) : reqs[a].kind = "gen" /\ reqs[a].version = ModelsVersion}
CandPos(n) == CHOOSE k \in 1..Len(candidates) : candidates[k] = n

\* C7: within one version the candidates are the preferred names present in
\* the catalog, in preference order, then every remaining catalog name in
\* catalog order, and they are attempted in that order; so a preferred
\* model that is present and capable is attempted before any non-preferred
\* model.
C7_PreferredFirst ==
  /\ {candidates[k] : k \in 1..Len(candidates)} = CatalogNames
  /\ \A p, q \in 1..Len(candidates) :
       p < q =>
         /\ candidates[p] # candidates[q]
         /\ IsPreferredName(candidates[q]) =>
              /\ IsPreferredName(candidates[p])
              /\ PreferenceRank(candidates[p]) < PreferenceRank(candidates[q])
         /\ (~IsPreferredName(candidates[p]) /\ ~IsPreferredName(candidates[q])) =>
              CatalogPos(candidates[p]) < CatalogPos(candidates[q])
  /\ \A a, b \in GenIdx :
       a < b => CandPos(reqs[a].model) < CandPos(reqs[b].model)
  /\ \A b \in GenIdx :
       ~IsPreferredName(reqs[b].model) =>
         \A n \in CatalogNames \cap CapableNames :
           IsPreferredName(n) => \E a \in GenIdx : a < b /\ reqs[a].model = n

\* the catalog lists a non-preferred model before a preferred one; the
\* preferred one was attempted first, the non-preferred one after it
C7_Witness ==
  /\ Len(models) = 2
  /\ models[1].hasName
  /\ BareName(models[1]) = <<"gemini-pro">>
  /\ BareName(models[2]) = <<"gemini-2.0-flash-lite">>
  /\ candidates = << <<"gemini-2.0-flash-lite">>, <<"gemini-pro">> >>
  /\ Cardinality(GenIdx) = 2
  /\ reqs[Len(reqs)] = GenReq(ModelsVersion, <<"gemini-pro">>)

\* C8: the versions are visited in the order v1beta, v1: no request goes to
\* v1 before the v1beta phase has ended (its listing failed or its candidate
\* loop ran past the last candidate), and when a v1beta candidate succeeds
\* the result carries version v1beta and v1 was never queried.
C8_VersionOrder ==
  /\ [](/\ reqs # <<>> => reqs[1] = ListReq("v1beta")
        /\ \A a, b \in 1..Len(reqs) :
             (a < b /\ reqs[a].version = "v1") => reqs[b].version = "v1"
        /\ result.kind = "ok" =>
             /\ reqs[Len(reqs)] = GenReq(result.version, result.model)
             /\ result.version = "v1beta" =>
                  \A a \in 1..Len(reqs) : reqs[a].version = "v1beta")
  /\ [][ (Len(reqs') > Len(reqs) /\ reqs'[Len(reqs')].version = "v1"
          /\ \A a \in 1..Len(reqs) : reqs[a].version = "v1beta") =>
            /\ reqs # <<>>
            /\ reqs'[Len(reqs')] = ListReq("v1")
            /\ \/ pc = "list" /\ listed'["v1beta"] = "failed"
               \/ ci' = Len(candidates') + 1 ]_vars

\* the second v1beta candidate succeeded
C8_Witness ==
  /\ result.kind = "ok"
  /\ result.version = "v1beta"
  /\ Len(reqs) = 3
  /\ ci = 2

\* C9: when list-models fails for v1beta (transport error, non-2xx status
\* or unparsable body) the selection does not fail: no generate-content
\* request goes to v1beta and list-models is sent to v1.
C9_ListFailureSkipsVersion ==
  /\ [][ (pc = "list" /\ vi = 1
          /\ (\/ last'.kind = "throw"
              \/ last'.status < 200
              \/ last'.status > 299
              \/ last'.raw = BodyHtml)) =>
            /\ pc' = "list"
            /\ vi' = 2
            /\ result' = result
            /\ reqs' = <<ListReq("v1beta"), ListReq("v1")>> ]_vars
  /\ [](listed["v1beta"] = "failed" =>
          /\ \A a \in 1..Len(reqs) : ~(reqs[a].kind = "gen" /\ reqs[a].version = "v1beta")
          /\ result.kind = "error" => listed["v1"] # "none")

\* list-models of v1beta threw a transport error, list-models of v1 is out
C9_Witness ==
  /\ pc = "list"
  /\ vi = 2
  /\ last.kind = "throw"
  /\ reqs = <<ListReq("v1beta"), ListReq("v1")>>

\* C10: a catalog model whose descriptor has no supportedGenerationMethods
\* field, or an empty list, is treated as capable: the capability filter
\* never skips it, so it is attempted when the candidate loop reaches it.
C10_UnknownCapabilityAttempted ==
  \A k \in 1..Len(candidates) :
    (k <= ci /\ \E j \in NamedIdx :
                  BareName(models[j]) = candidates[k] /\ CapabilityUnknown(models[j]))
      => \E a \in GenIdx : reqs[a].model = candidates[k]

\* a model without the field is attempted although the filter is active
\* (another model of the catalog advertises only other methods)
C10_Witness ==
  /\ pc = "gen"
  /\ \E j \in NamedIdx :
       /\ BareName(models[j]) = candidates[ci]
       /\ ~models[j].hasMethods
  /\ \E j \in NamedIdx :
       /\ ~CapabilityUnknown(models[j])
       /\ ~AdvertisesGenerate(models[j])
  /\ \A j \in NamedIdx :
       BareName(models[j]) = candidates[ci] => CapabilityUnknown(models[j])


\* C11: a candidate is skipped, with no request sent for it, exactly when
\* the generateCapable set of its version is non-empty and does not
\* contain it; every other candidate the loop reaches gets a
\* generateContent call.
C11_SkippedExactlyWhenFiltered ==
  \A k \in 1..Len(candidates) :
    k <= ci =>
      ((\E a \in GenIdx : reqs[a].model = candidates[k])
         <=> ~(CapableNames # {} /\ candidates[k] \notin CapableNames))

\* the first candidate was skipped (its descriptor advertises only other
\* methods, another one is capable) and the second one is being attempted
C11_Witness ==
  /\ pc = "gen"
  /\ ci = 2
  /\ CapableNames # {}
  /\ candidates[1] \notin CapableNames
  /\ Cardinality(GenIdx) = 1
  /\ reqs[Len(reqs)] = GenReq(ModelsVersion, candidates[2])


\* ----- outcomes of generate-content as the claims speak of them -----
\* the body of a 2xx response whose text field is missing or blank
BlankTextBodies == {BodyBlank, BodyNoText, BodyBlankUnsupported}

\* a 2xx response with a missing or blank text has just settled the
\* pending generate-content attempt
BlankTextSettled ==
  /\ pc = "gen"
  /\ last'.kind = "resp"
  /\ last'.status >= 200
  /\ last'.status <= 299
  /\ last'.raw \in BlankTextBodies

\* a text carries one of the markers the mismatch test looks for
CarriesMarker(text) ==
  \/ Includes(text, <<": ", "404">>)
  \/ Includes(text, <<"NOT_FOUND">>)
  \/ Includes(text, <<"not supported">>)

\* the step leaves the current candidate without a result and without an
\* error of its own: a later candidate is attempted, the next version is
\* listed, or (after v1) the exhaustion error is thrown
GoesOnToNext ==
  /\ result'.kind # "ok"
  /\ result'.kind = "error" => result'.msg = ExhaustedMsg
  /\ \/ /\ pc' = "gen"
        /\ vi' = vi
        /\ ci' > ci
        /\ reqs' = Append(reqs, GenReq(Versions[vi], candidates[ci']))
     \/ /\ ci' = Len(candidates) + 1
        /\ vi = 1
        /\ pc' = "list"
        /\ reqs' = Append(reqs, ListReq("v1"))
     \/ /\ ci' = Len(candidates) + 1
        /\ vi = 2
        /\ pc' = "done"
        /\ reqs' = reqs

\* the step ends the selection with the error of the current candidate
AbortsWithOwnError ==
  /\ pc' = "done"
  /\ result'.kind = "error"
  /\ result'.msg # ExhaustedMsg
  /\ reqs' = reqs
  /\ attempts' = attempts
  /\ ci' = ci
  /\ vi' = vi

\* C12 as stated: a 2xx response with a missing or blank text makes the
\* selection continue with the next candidate; it is neither a success nor
\* an abort.
C12_BlankTextContinues ==
  [][ BlankTextSettled => GoesOnToNext ]_vars

\* C12 as amended: a 2xx response with a missing or blank text is a
\* failure, never a success with an empty string: the selection aborts
\* with the "response is empty" error, and goes on to the next candidate
\* only when the raw body carries ': 404', 'NOT_FOUND' or 'not supported'.
C12_BlankTextIsFailure ==
  [][ BlankTextSettled =>
        IF CarriesMarker(last'.raw)
          THEN GoesOnToNext
          ELSE /\ AbortsWithOwnError
               /\ result'.msg[1] = "Gemini response is empty (" ]_vars

\* the selection ended with the "response is empty" error of a 200
\* response whose text is blank
C12_Witness ==
  /\ pc = "done"
  /\ last.kind = "resp"
  /\ last.status = 200
  /\ last.raw = BodyBlank
  /\ result.kind = "error"
  /\ result.msg[1] = "Gemini response is empty ("


\* C13: an empty-generated-text failure (a 2xx response whose text is
\* missing or blank) is fatal: no further candidate or version is tried
\* and the error is propagated at once.
C13_BlankTextFatal ==
  [][ BlankTextSettled => AbortsWithOwnError ]_vars


\* the texts that are empty after trimming
BlankTexts == {"", "  "}

\* C14: whenever generateWithAutoPick returns a result its text is
\* non-empty after trimming, so the answer the handler sends with status
\* 200 is never empty.
C14_TextNeverEmpty ==
  /\ result.kind = "ok" => result.text \notin BlankTexts
  /\ res.status = 200 =>
       /\ result.kind = "ok"
       /\ res.answer \notin BlankTexts

\* the handler answered 200 with the trimmed text of the result
C14_Witness ==
  /\ pc = "done"
  /\ result.kind = "ok"
  /\ result.text = " answer "
  /\ res.status = 200
  /\ res.answer = "answer"

\* a body field is a non-blank string
NonBlankString(f) == f.isString /\ f.text \notin BlankTexts
ValidRequest ==
  /\ req.method = "POST"
  /\ NonBlankString(req.articleText)
  /\ NonBlankString(req.question)
  /\ req.keySet

\* C18: the handler sends exactly one response per request, decided in the
\* order: method other than POST -> 405; articleText or question not a
\* non-blank string -> 400; key unset -> 500; error thrown by
\* generateWithAutoPick -> 500 with its message; else 200 with the trimmed
\* text. generateWithAutoPick is called only in the last two cases.
C18_HandlerPrecedence ==
  /\ [](/\ pc # "done" => res = NoResponse
        /\ pc = "done" =>
             /\ res # NoResponse
             /\ IF req.method # "POST" THEN res.status = 405
                ELSE IF ~NonBlankString(req.articleText) \/ ~NonBlankString(req.question)
                  THEN res.status = 400
                ELSE IF ~req.keySet THEN res.status = 500 /\ result = NoResult
                ELSE IF result.kind = "error"
                  THEN res.status = 500 /\ res.error = result.msg
                ELSE /\ result.kind = "ok"
                     /\ res.status = 200
                     /\ res.answer \in {"answer"}
        /\ reqs # <<>> => ValidRequest
        /\ (ValidRequest /\ pc # "idle") => reqs # <<>>)
  /\ [][res # NoResponse => res' = res]_vars

\* a POST with a blank articleText and no key set was answered 400
C18_Witness ==
  /\ pc = "done"
  /\ req.method = "POST"
  /\ req.articleText = StrField("  ")
  /\ ~req.keySet
  /\ res.status = 400
  /\ reqs = <<>>


\* ----- how the selection leaves a version, as C15 speaks of it -----
\* the pending list-models call fails: transport error, non-2xx status or
\* a body that is not JSON
ListFails ==
  /\ pc = "list"
  /\ \/ last'.kind = "throw"
     \/ last'.status < 200
     \/ last'.status > 299
     \/ last'.raw = BodyHtml

\* candidate k of the listed version is skipped by the capability filter
SkippedByFilter(k) == CapableNames # {} /\ candidates[k] \notin CapableNames

\* the pending list-models call succeeds and every candidate is skipped
ListedAllSkipped ==
  /\ pc = "list"
  /\ ~ListFails
  /\ \A k \in 1..Len(candidates') : SkippedByFilter(k)'

\* the pending generate-content call ends in a mismatch (status 404 or a
\* marker in the body) and every later candidate is skipped
LastCandidateMismatch ==
  /\ pc = "gen"
  /\ pc' # "sleep"
  /\ last'.kind = "resp"
  /\ result'.kind # "ok"
  /\ last'.status = 404 \/ CarriesMarker(last'.raw)
  /\ \A k \in (ci + 1)..Len(candidates) : SkippedByFilter(k)

VersionExhausted == ListFails \/ ListedAllSkipped \/ LastCandidateMismatch

\* C15: generateWithAutoPick fails with the exhaustion error exactly when,
\* for both versions, listing failed or every candidate was skipped or
\* ended in a mismatch (v1 is reached exactly when v1beta ended so, and the
\* exhaustion error is thrown exactly when v1 ended so); the mismatch error
\* of a candidate is never the error propagated.
C15_ExhaustionExactly ==
  /\ [][ (result.kind = "none" /\ result'.kind = "error" /\ result'.msg = ExhaustedMsg)
           <=> (pc \in {"list", "gen"} /\ vi = 2 /\ VersionExhausted) ]_vars
  /\ [][ (pc \in {"list", "gen"} /\ vi = 1)
           => ((vi' = 2 /\ pc' = "list") <=> VersionExhausted) ]_vars
  /\ [](result.kind = "error" =>
          \/ result.msg = ExhaustedMsg
          \/ ~CarriesMarker(result.msg))

\* the exhaustion error after v1beta could not be listed and the only
\* candidate of v1 ended with status 404
C15_Witness ==
  /\ pc = "done"
  /\ result = Failed(ExhaustedMsg)
  /\ listed["v1beta"] = "failed"
  /\ listed["v1"] = "ok"
  /\ last.kind = "resp"
  /\ last.status = 404
  /\ Len(reqs) = 3


\* C17: nothing is cached across calls: every call of generateWithAutoPick,
\* whatever the earlier calls returned, starts by listing the models of
\* v1beta, and sends a generate-content request to a version only after a
\* successful list-models on that version within the same call.
C17_NothingCached ==
  /\ reqs # <<>> => reqs[1] = ListReq("v1beta")
  /\ \A a \in 1..Len(reqs) :
       reqs[a].kind = "gen" =>
         /\ listed[reqs[a].version] = "ok"
         /\ \E b \in 1..(a - 1) : reqs[b] = ListReq(reqs[a].version)

\* the call after one that picked a model of v1 attempts a model of v1beta
C17_Witness ==
  /\ ncalls = 2
  /\ prev.kind = "ok"
  /\ prev.version = "v1"
  /\ pc = "gen"
  /\ reqs[1] = ListReq("v1beta")
  /\ reqs[2].kind = "gen"
  /\ reqs[2].version = "v1beta"


\* C19: fetchWithTimeout clears its timer on every exit path (fetch
\* resolved, fetch rejected, abort fired): once the call has returned or
\* thrown, no timer armed by it is pending.
C19_TimerCleared ==
  /\ [](fpc # "fetch" => ~timer.armed)
  /\ [][(fpc = "fetch" /\ fpc' # "fetch") => timer' = NoTimer]_vars

\* fetch resolved before the timeout of listModels had elapsed, and the
\* timer is gone while the body is read
C19_Witness ==
  /\ fpc = "body"
  /\ caller = "listModels"
  /\ now = issuedAt + 5000
  /\ signal = "clear"
  /\ timer = NoTimer

\* the timeout the claim gives for the call in flight
ClaimedTimeout == IF caller = "listModels" THEN 15000 ELSE 30000

\* C20 as stated: from the moment the request is issued until its body
\* has been read the abort timer of the call is armed, so the call is not
\* pending after its timeout (15 s list-models, 30 s generate-content).
C20_ArmedUntilBodyRead ==
  fpc \in {"fetch", "body"} =>
    /\ timer.armed
    /\ timer.due = issuedAt + ClaimedTimeout
    /\ now <= issuedAt + ClaimedTimeout

\* C20 as amended: the abort timer is armed from the moment the request is
\* issued until fetch settles (the response headers arrive, or fetch
\* rejects), so fetch is not pending after the timeout (15 s list-models,
\* 30 s generate-content); the timer is cleared before the body is read,
\* so the reading of the body is not bounded by it.
C20_ArmedUntilFetchSettles ==
  /\ fpc = "fetch" =>
       /\ timer.armed
       /\ timer.due = issuedAt + ClaimedTimeout
       /\ now <= issuedAt + ClaimedTimeout
  /\ fpc = "body" => ~timer.armed /\ signal = "clear"

\* the timer of a generate-content call fired 30 s after the request was
\* issued and the call threw
C20_Witness ==
  /\ fpc = "thrown"
  /\ caller = "generateContent"
  /\ signal = "aborted"
  /\ now = issuedAt + 30000
  /\ timer = NoTimer


\* the outcome that has just settled the awaited request is terminal for
\* it: a list-models outcome always is, a generate-content outcome is
\* unless it is retryable and attempts are left
PreviousSettledForGood ==
  /\ pc \in {"list", "gen"}
  /\ last' # NoOutcome
  /\ pc = "gen" => (~IsRetryableOutcome(last') \/ attempts = 4)

\* C21: within one generateWithAutoPick call everything is sequential: at
\* most one network request or backoff sleep is outstanding at any moment,
\* none is once the call has ended, and the request for the next candidate
\* or version is issued only when the previous request has reached its
\* terminal outcome.
C21_StrictlySequential ==
  /\ [](/\ Cardinality(inflight) <= 1
        /\ pc \in {"idle", "done"} => inflight = {})
  /\ [][(reqs # <<>> /\ Len(reqs') > Len(reqs)) =>
          /\ PreviousSettledForGood
          /\ inflight = {reqs[Len(reqs)]}
          /\ inflight' = {reqs'[Len(reqs')]}]_vars

\* the request of the second candidate is the only one outstanding, after
\* the first candidate's request ended with status 404
C21_Witness ==
  /\ pc = "gen"
  /\ ci = 2
  /\ Len(reqs) = 3
  /\ last.kind = "resp"
  /\ last.status = 404
  /\ inflight = {GenReq("v1beta", candidates[2])}


\* the values that hold the API key or are derived from it, and the one
\* derived value the claim lets a log entry carry
KeyValues == {"apiKey", "geminiApiKey", "!!geminiApiKey"}
KeySetBoolean == "!!geminiApiKey"

\* the requests outstanding on the network
RequestsInFlight == {op \in inflight : op.kind \in {"list", "gen"}}

TransientOutlastsBudget ==
  /\ pc = "gen"
  /\ attempts = 4
  /\ \/ last'.kind = "throw"
     \/ /\ last'.kind = "resp"
        /\ last'.status \in RetryStatuses
        /\ ~CarriesMarker(last'.raw)

\* C24: a transient failure of generate-content that outlasts the retry
\* budget is fatal: generateWithAutoPick aborts and propagates it, and no
\* further candidate or version is tried.
C24_TransientExhaustedIsFatal ==
  [][ TransientOutlastsBudget =>
        /\ AbortsWithOwnError
        /\ pc' # "sleep"
        /\ waits' = waits
        /\ last'.kind = "throw" => result'.msg = last'.msg
        /\ last'.kind = "resp" =>
             Includes(result'.msg, <<": ", ToString(last'.status), " ">> \o last'.raw) ]_vars

\* the selection ended with the error of a fourth 503 of the first
\* candidate, a second candidate being left
C24_Witness ==
  /\ pc = "done"
  /\ attempts = 4
  /\ waits = <<800, 1600, 3200>>
  /\ last.kind = "resp"
  /\ last.status = 503
  /\ last.raw = BodyDenied
  /\ result.kind = "error"
  /\ result.msg # ExhaustedMsg
  /\ ci = 1
  /\ Len(candidates) = 2


\* the pending generate-content call has just failed for good: no retry
\* follows and no text was returned
GenFailedForGood ==
  /\ pc = "gen"
  /\ pc' # "sleep"
  /\ last' # NoOutcome
  /\ result'.kind # "ok"

\* C25: a generate-content failure is taken for a version/model mismatch
\* (the selection goes on) exactly when the status is 404 or the failure
\* carries a NOT_FOUND / 'not supported' signal; every other failure is
\* fatal, and a failure with a status other than 404 is never taken for a
\* mismatch.
C25_MismatchOnlyBySignal ==
  [][ GenFailedForGood =>
        /\ GoesOnToNext <=>
             (last'.kind = "resp" /\ (last'.status = 404 \/ CarriesMarker(last'.raw)))
        /\ ~GoesOnToNext => AbortsWithOwnError
        /\ (last'.kind = "resp" /\ ~(last'.status >= 200 /\ last'.status <= 299)
              /\ last'.status # 404) => AbortsWithOwnError ]_vars


\* the list-models requests sent to version v in this call
ListIdx(v) == {a \in 1..Len(reqs) : reqs[a] = ListReq(v)}

\* the pending list-models request has just ended with a retryable status
\* or a transport error
ListEndsTransient ==
  /\ pc = "list"
  /\ \/ last'.kind = "throw"
     \/ last'.kind = "resp" /\ last'.status \in RetryStatuses

\* C26: list-models is not retried: at most one list-models request per
\* version within a call, no backoff sleep after it, and a retryable
\* status or a transport error makes the listing of that version fail.
C26_ListNotRetried ==
  /\ [](\A v \in {"v1beta", "v1"} : Cardinality(ListIdx(v)) <= 1)
  /\ [][ pc = "list" =>
           /\ pc' # "sleep"
           /\ \A op \in inflight' : op.kind # "sleep"
           /\ \A e \in logged' : e.text # "[WARN] Retryable status" ]_vars
  /\ [][ ListEndsTransient =>
           /\ listed'[Versions[vi]] = "failed"
           /\ candidates' = <<>>
           /\ \/ vi = 1 /\ pc' = "list" /\ reqs' = Append(reqs, ListReq("v1"))
              \/ vi = 2 /\ pc' = "done" /\ reqs' = reqs
                 /\ result' = Failed(ExhaustedMsg) ]_vars

\* list-models of v1beta ended with status 503 and v1 is being listed,
\* after one request to v1beta
C26_Witness ==
  /\ pc = "list"
  /\ vi = 2
  /\ last.kind = "resp"
  /\ last.status = 503
  /\ listed["v1beta"] = "failed"
  /\ waits = <<>>
  /\ reqs = <<ListReq("v1beta"), ListReq("v1")>>


\* C27: every model name generateWithAutoPick compares, puts in a
\* generate-content URL or returns is the bare name (leading 'models/'
\* stripped) of a descriptor of the catalog listed for that version in that
\* call; a returned model is in generateCapable whenever that set is
\* non-empty.
C27_NamesAreBareCatalogNames ==
  /\ \A k \in 1..Len(candidates) :
       /\ candidates[k] \in CatalogNames
       /\ Head(candidates[k]) # "models/"
  /\ \A a \in GenIdx : reqs[a].model \in CatalogNames
  /\ \A a \in 1..Len(reqs) :
       reqs[a].kind = "gen" => listed[reqs[a].version] = "ok"
  /\ result.kind = "ok" =>
       /\ result.version = ModelsVersion
       /\ result.model \in CatalogNames
       /\ result.model = reqs[Len(reqs)].model
       /\ CapableNames # {} => result.model \in CapableNames

\* a model of v1 was returned under its bare name; its descriptor carries
\* the 'models/' prefix and advertises generateContent, another one does not
C27_Witness ==
  /\ pc = "done"
  /\ result.kind = "ok"
  /\ result.version = "v1"
  /\ result.model = <<"gemini-2.0-flash-lite">>
  /\ models = <<DEmbed, DLite>>
  /\ CapableNames = {<<"gemini-2.0-flash-lite">>}


\* the generate-content calls made for candidate m of version v
PairIdx(v, m) == {a \in 1..Len(reqs) : reqs[a] = GenReq(v, m)}

\* generateWithAutoPick is running / has ended
CallRunning == pc \in {"list", "gen", "sleep"}
CallEnded == pc = "done" /\ reqs # <<>>

\* C28: provided every request and every sleep completes,
\* generateWithAutoPick terminates with exactly one of three outcomes (a
\* result, a propagated fatal error, the exhaustion error), after at most 2
\* list-models requests and at most 4 generate-content requests per
\* (version, candidate) pair.
C28_Terminates ==
  /\ CallRunning ~> CallEnded
  /\ [](/\ Cardinality(ListIdx("v1beta")) + Cardinality(ListIdx("v1")) <= 2
        /\ attempts <= 4
        /\ \A a \in 1..Len(reqs) :
             reqs[a].kind = "gen" =>
               Cardinality(PairIdx(reqs[a].version, reqs[a].model)) = 1
        /\ CallRunning => result = NoResult
        /\ CallEnded =>
             \/ result.kind = "ok" /\ result.text \notin BlankTexts /\ result.msg = <<>>
             \/ result.kind = "error" /\ result.msg = ExhaustedMsg
             \/ result.kind = "error" /\ result.msg # ExhaustedMsg /\ result.msg # <<>>)

\* a call ended with a result after both versions were listed and the
\* fourth request for the candidate succeeded
C28_Witness ==
  /\ pc = "done"
  /\ result.kind = "ok"
  /\ result.version = "v1"
  /\ attempts = 4
  /\ Cardinality(ListIdx("v1beta")) + Cardinality(ListIdx("v1")) = 2


\* C29: the candidate list of a version holds every distinct bare name of
\* the catalog exactly once, also when the catalog repeats a name or lists
\* a preferred name, so no (version, model) pair is attempted by
\* generateContent more than once within a call.
C29_CandidatesDistinct ==
  /\ {candidates[k] : k \in 1..Len(candidates)} = CatalogNames
  /\ Len(candidates) = Cardinality(CatalogNames)
  /\ \A j, k \in 1..Len(candidates) : candidates[j] = candidates[k] => j = k
  /\ \A a, b \in 1..Len(reqs) :
       (reqs[a].kind = "gen" /\ reqs[a] = reqs[b]) => a = b

\* the catalog lists the preferred name gemini-2.0-flash-lite twice; it is
\* the one candidate, attempted once, and the call went on to v1
C29_Witness ==
  /\ models = <<DLite, DLite>>
  /\ candidates = <<<<"gemini-2.0-flash-lite">>>>
  /\ pc = "list"
  /\ vi = 2
  /\ reqs = <<ListReq("v1beta"), GenReq("v1beta", <<"gemini-2.0-flash-lite">>), ListReq("v1")>>


\* every descriptor of the listed catalog carries a non-empty
\* supportedGenerationMethods list without 'generateContent'
NoneAdvertisesGenerate ==
  /\ models # <<>>
  /\ \A k \in 1..Len(models) :
       /\ models[k].hasMethods
       /\ models[k].methods # <<>>
       /\ \A n \in 1..Len(models[k].methods) : models[k].methods[n] # "generateContent"

\* C30: when every descriptor of a version's catalog carries a non-empty
\* method list without 'generateContent', generateCapable is empty and the
\* filter is disabled: no candidate is skipped, generate-content is
\* attempted on each candidate the loop reaches, in candidate order.
C30_EmptyCapableSetDisablesFilter ==
  NoneAdvertisesGenerate =>
    /\ CapableNames = {}
    /\ candidates # <<>> => ci >= 1
    /\ \A k \in 1..Len(candidates) :
         k <= ci => \E a \in GenIdx : reqs[a].model = candidates[k]
    /\ \A a, b \in GenIdx :
         a < b => CandPos(reqs[a].model) < CandPos(reqs[b].model)
    /\ pc \in {"gen", "sleep"} => Cardinality(GenIdx) = ci

\* both models of a catalog that advertises only other methods have been
\* attempted, in candidate order
C30_Witness ==
  /\ models = <<DEmbed, DAqa>>
  /\ pc = "gen"
  /\ ci = 2
  /\ Cardinality(GenIdx) = 2
  /\ reqs[Len(reqs) - 1].model = <<"embedding-001">>
  /\ reqs[Len(reqs)].model = <<"aqa">>



\* the statuses of an authentication or quota failure
AuthOrQuotaStatuses == {401, 403, 429}

\* the requests of a call in which both versions were listed and nothing
\* else was sent
BothListedOnly == <<ListReq("v1beta"), ListReq("v1")>>

\* C31: when list-models fails on both versions for any reason (an
\* authentication failure 401/403 and a quota failure 429 included),
\* generateWithAutoPick sends no generate-content request and fails with
\* the exhaustion error 'No working Gemini model found', not with the
\* listing error: a failed listing of v1beta leaves the call running and
\* lists v1, a failed listing of v1 after it ends the call with the
\* exhaustion error, which the handler answers with status 500.
C31_ListFailuresEndInExhaustion ==
  /\ [][ (ListFails /\ vi = 1) =>
           /\ pc' = "list"
           /\ vi' = 2
           /\ result' = NoResult
           /\ res' = NoResponse
           /\ reqs' = BothListedOnly ]_vars
  /\ [][ (ListFails /\ vi = 2 /\ listed["v1beta"] = "failed") =>
           /\ pc' = "done"
           /\ reqs' = BothListedOnly
           /\ result'.kind = "error"
           /\ result'.msg = <<"No working Gemini model found (checked v1beta/v1).">>
           /\ res'.status = 500
           /\ res'.error = result'.msg ]_vars
  /\ [](\A v \in {"v1beta", "v1"} :
          listed[v] = "failed" => \A a \in 1..Len(reqs) : ~(reqs[a].kind = "gen" /\ reqs[a].version = v))
  /\ [][ (ListFails /\ last'.kind = "resp" /\ last'.status \in AuthOrQuotaStatuses) =>
           /\ listed'[Versions[vi]] = "failed"
           /\ result'.kind = "error" => result'.msg = ExhaustedMsg ]_vars

\* list-models of v1beta failed, list-models of v1 was answered with
\* status 401, and the call ended with the exhaustion error after these
\* two requests
C31_Witness ==
  /\ pc = "done"
  /\ listed["v1beta"] = "failed"
  /\ listed["v1"] = "failed"
  /\ last.kind = "resp"
  /\ last.status = 401
  /\ reqs = BothListedOnly
  /\ result = Failed(ExhaustedMsg)
  /\ res.status = 500



\* ----- the page, as C32 and C33 speak of it -----
\* no fetch-article-content or summarize-article request is in flight
ArticleRequestsSettled ==
  \A r \in BagToSet(pending) : r.kind \notin {"content", "summary"}

\* C32: once every request a selectArticle triggered (fetch-article-content,
\* then summarize-article) has settled, loading.content and loading.summary
\* are both false, whether the requests succeeded or failed: the spinner of
\* the summary pane is not shown.
C32_SpinnerDisappears ==
  ArticleRequestsSettled => (~loading.content /\ ~loading.summary)

\* C33: whenever no request is in flight, state.selectedArticleContent and
\* state.summaryResult are empty or were produced for the article in
\* state.selectedArticle.
C33_ContentOfSelectedArticle ==
  pending = EmptyBag =>
    /\ state.selectedArticleContent # <<>> =>
         /\ state.selectedArticle # NoArticle
         /\ state.selectedArticleContent = ArticleText(state.selectedArticle)
    /\ state.summaryResult # <<>> =>
         /\ state.selectedArticle # NoArticle
         /\ state.summaryResult = SummaryOf(ArticleText(state.selectedArticle))

====
